---- MODULE Spec2Model ----
(***************************************************************************)
(* find_rogues: the rogue access point report.                             *)
(*                                                                         *)
(* A record (a Python dict of the vendor API) is a function from key       *)
(* strings to value strings; a list of dicts is a sequence.  A list that   *)
(* holds references to dicts of another list (the classifier's output) is  *)
(* a sequence of positions in that list.                                   *)
(*                                                                         *)
(* Three specifications share the variables:                               *)
(*   Spec         one run of a command: show, sendgrid, slack, smtp,       *)
(*                datatest, stage by stage;                                *)
(*   SpecClassify one call of find_ssids on bounded arguments;             *)
(*   SpecProject  one call of clean_rogue_data on bounded arguments.       *)
(***************************************************************************)
EXTENDS Integers, Sequences, FiniteSets, TLC

VARIABLES
    cmd,               \* the command (or function) being run
    rev,               \* show: the --rev option
    save,              \* show: the --save option
    account,           \* the account argument
    pc,                \* position in the run
    trace,             \* the stages executed so far, in order
    arg,               \* SpecClassify, SpecProject: the list passed to the call
    rogue_aps,         \* get_rogues(central)["msg"]["rogue_aps"]
    suspect_aps,       \* get_suspected_rogues(central)["msg"]["suspect_aps"]
    all_rapids_types,  \* the list get_all_rogues returned
    check_ssids,       \* the watchlist
    score,             \* fuzz.partial_ratio, as a table
    matches,           \* find_ssids' result: references into all_rapids_types
    ignore_keys,       \* the drop list given to clean_rogue_data
    rogues,            \* clean_rogue_data's result
    table,             \* tabulate's result
    exc,               \* the exception that ended the run, "" if none
    upload_failed,     \* whether files_upload_v2 failed in this run
    tmpfiles           \* temporary files of upload_table still on disk

vars == <<cmd, rev, save, account, pc, trace, arg, rogue_aps, suspect_aps,
          all_rapids_types, check_ssids, score, matches, ignore_keys, rogues,
          table, exc, upload_failed, tmpfiles>>

----------------------------------------------------------------------------
(* Bounds *)

\* most records in one call of find_ssids
MaxRecs == 2
\* most entries of a watchlist given to find_ssids
MaxWatch == 2
\* most records the two fetched lists hold together
MaxFetch == 2

----------------------------------------------------------------------------
(* Generic helpers *)

Restrict(f, S) == [k \in S |-> f[k]]

SeqsUpTo(S, n) == UNION {[1..m -> S] : m \in 0..n}

Count(s, x) == Cardinality({j \in 1..Len(s) : s[j] = x})

----------------------------------------------------------------------------
(* Strings *)

\* str.lower() on the strings of the model
Lower(s) ==
    CASE s = "EvilTwin" -> "eviltwin"
      [] s = "Unrelated" -> "unrelated"
      [] OTHER -> s

\* the watchlist entries a configuration may hold
Entries == {"eviltwin", "evil"}

WatchLists == SeqsUpTo(Entries, MaxWatch)

----------------------------------------------------------------------------
(* find_ssids *)

Threshold == 80

\* line 110: the record with its ssid key defaulted
WithSsid(ea) == IF "ssid" \in DOMAIN ea THEN ea ELSE ea @@ ("ssid" :> "")

\* the comparison with >= in place of >
MatchesGE(ea, ea_ssid, sc) == sc[<<Lower(ea["ssid"]), ea_ssid>>] >= Threshold

\* line 114: the condition of the generator
Matches(ea, ea_ssid, sc) == sc[<<Lower(ea["ssid"]), ea_ssid>>] > Threshold

\* a record appended once, however many entries match
RECURSIVE MatchRefsOnce(_, _, _, _)
MatchRefsOnce(i, ea, _check_ssids, sc) ==
    IF _check_ssids = <<>> THEN <<>>
    ELSE IF Matches(ea, Head(_check_ssids), sc) THEN <<i>>
    ELSE MatchRefsOnce(i, ea, Tail(_check_ssids), sc)

\* lines 111-115: one reference to record i per watchlist entry that matches,
\* in watchlist order
RECURSIVE MatchRefs(_, _, _, _)
MatchRefs(i, ea, _check_ssids, sc) ==
    IF _check_ssids = <<>> THEN <<>>
    ELSE (IF Matches(ea, Head(_check_ssids), sc) THEN <<i>> ELSE <<>>)
         \o MatchRefs(i, ea, Tail(_check_ssids), sc)

\* lines 108-115, from record i on: rogue_ssid_matches
RECURSIVE FindFrom(_, _, _, _)
FindFrom(i, fdata, _check_ssids, sc) ==
    IF i > Len(fdata) THEN <<>>
    ELSE MatchRefs(i, WithSsid(fdata[i]), _check_ssids, sc)
         \o FindFrom(i + 1, fdata, _check_ssids, sc)

\* find_ssids: the list it returns (references into fdata) and fdata as the
\* loop leaves it (line 110 writes into the caller's dicts)
find_ssids(fdata, _check_ssids, sc) ==
    [ret   |-> FindFrom(1, fdata, _check_ssids, sc),
     fdata |-> [i \in 1..Len(fdata) |-> WithSsid(fdata[i])]]

----------------------------------------------------------------------------
(* SpecClassify: one call of find_ssids *)

ClassifySSIDs == {"EvilTwin", "eviltwin"}

ScoreVals == {0, Threshold, Threshold + 1, 100}

\* every score table over the lower-cased ssids and the entries
ClassifyScores ==
    [{Lower(s) : s \in ClassifySSIDs \cup {""}} \X Entries -> ScoreVals]

ClassifyRecords ==
    {("id" :> "AA:BB")} \cup {("id" :> "AA:BB") @@ ("ssid" :> s) : s \in ClassifySSIDs}

InitClassify ==
    /\ cmd = "find_ssids"
    /\ pc = "call"
    /\ arg \in SeqsUpTo(ClassifyRecords, MaxRecs)
    /\ all_rapids_types = arg
    /\ check_ssids \in WatchLists
    /\ score \in ClassifyScores
    /\ matches = <<>>
    /\ rev = FALSE /\ save = FALSE /\ account = "default"
    /\ trace = <<>>
    /\ rogue_aps = <<>> /\ suspect_aps = <<>>
    /\ ignore_keys = <<>> /\ rogues = <<>> /\ table = <<>>
    /\ exc = "" /\ upload_failed = FALSE /\ tmpfiles = 0

CallFindSsids ==
    /\ cmd = "find_ssids"
    /\ pc = "call"
    /\ LET r == find_ssids(all_rapids_types, check_ssids, score)
       IN /\ matches' = r.ret
          /\ all_rapids_types' = r.fdata
    /\ pc' = "return"
    /\ trace' = Append(trace, "classify")
    /\ UNCHANGED <<cmd, rev, save, account, arg, rogue_aps, suspect_aps,
                   check_ssids, score, ignore_keys, rogues, table, exc,
                   upload_failed, tmpfiles>>

NextClassify == CallFindSsids

SpecClassify == InitClassify /\ [][NextClassify]_vars

----------------------------------------------------------------------------
(* Claims about find_ssids *)

SsidOrEmpty(r) == IF "ssid" \in DOMAIN r THEN r["ssid"] ELSE ""

\* the watchlist positions whose entry scores above 80 against record r
MatchingEntries(r) ==
    {k \in 1..Len(check_ssids) :
        score[<<Lower(SsidOrEmpty(r)), check_ssids[k]>>] > 80}

BestScore(r) ==
    IF check_ssids = <<>> THEN 0
    ELSE CHOOSE m \in ScoreVals :
        /\ \E k \in 1..Len(check_ssids) :
              score[<<Lower(SsidOrEmpty(r)), check_ssids[k]>>] = m
        /\ \A k \in 1..Len(check_ssids) :
              score[<<Lower(SsidOrEmpty(r)), check_ssids[k]>>] <= m

\* C1: a record is in find_ssids' output if and only if some watchlist entry
\* scores strictly more than 80 against its lower-cased ssid (an absent ssid
\* counting as ""); a record whose best score is exactly 80 is not in it.
C1_MatchIffAbove80 ==
    (cmd = "find_ssids" /\ pc = "return") =>
        \A i \in 1..Len(arg) :
            /\ (Count(matches, i) > 0) <=> (MatchingEntries(arg[i]) # {})
            /\ (BestScore(arg[i]) = 80) => (Count(matches, i) = 0)

C1_Witness ==
    /\ cmd = "find_ssids" /\ pc = "return"
    /\ \E i, j \in 1..Len(arg) :
          /\ BestScore(arg[i]) = 80 /\ Count(matches, i) = 0
          /\ BestScore(arg[j]) = 81 /\ Count(matches, j) > 0

\* C2: a record that matches N watchlist entries is in find_ssids' output
\* exactly N times (the output is empty when the watchlist is), and the output
\* follows the input order: no copy of a later record precedes a copy of an
\* earlier one.
C2_MultiplicityAndOrder ==
    (cmd = "find_ssids" /\ pc = "return") =>
        /\ \A i \in 1..Len(arg) :
              Count(matches, i) = Cardinality(MatchingEntries(arg[i]))
        /\ \A j \in 1..Len(matches) : matches[j] \in 1..Len(arg)
        /\ \A j, k \in 1..Len(matches) : j < k => matches[j] <= matches[k]
        /\ (check_ssids = <<>>) => (matches = <<>>)

C2_Witness ==
    /\ cmd = "find_ssids" /\ pc = "return"
    /\ Len(arg) = 2
    /\ Count(matches, 1) = 2
    /\ Count(matches, 2) = 1
    /\ matches = <<1, 1, 2>>

----------------------------------------------------------------------------
(* clean_rogue_data *)

\* lines 236-249: the renames, in the order the code applies them
RenameMap ==
    << <<"classification", "Type">>,
       <<"name", "Manufacture">>,
       <<"ssid", "Rogue SSID">>,
       <<"human_last_seen", "Last Seen">>,
       <<"id", "BSSID">>,
       <<"last_det_device_name", "Seen By">>,
       <<"signal", "Signal">> >>

RenameKeys == {RenameMap[n][1] : n \in 1..Len(RenameMap)}

TargetNames == {RenameMap[n][2] : n \in 1..Len(RenameMap)}

\* the column a rename-map key becomes
Target(k) == RenameMap[CHOOSE n \in 1..Len(RenameMap) : RenameMap[n][1] = k][2]

\* the slack list without its last key
slack_ignore_keys_short ==
    <<"last_seen", "acknowledged", "classification_method", "encryption",
      "mac_vendor", "first_det_device_name", "containment_status", "cust_id",
      "first_seen", "first_det_device", "last_det_device", "last_seen",
      "human_first_seen">>

\* slack, lines 289-304
slack_ignore_keys ==
    <<"last_seen", "acknowledged", "classification_method", "encryption",
      "mac_vendor", "first_det_device_name", "containment_status", "cust_id",
      "first_seen", "first_det_device", "last_det_device", "last_seen",
      "human_first_seen", "overriden">>

\* smtp, lines 336-351
smtp_ignore_keys ==
    <<"last_seen", "acknowledged", "classification_method", "encryption",
      "mac_vendor", "first_det_device_name", "containment_status", "cust_id",
      "first_seen", "first_det_device", "last_det_device",
      "human_first_seen", "overriden">>

\* datatest, lines 371-385
datatest_ignore_keys ==
    <<"acknowledged", "classification_method", "encryption", "mac_vendor",
      "first_det_device_name", "containment_status", "cust_id", "first_seen",
      "first_det_device", "last_det_device", "last_seen", "human_first_seen",
      "overriden">>

\* RogueModel(_rogue_data).dict(), lines 227-228: the records as plain dicts
\* of their own, every field kept as it is
RogueModelDict(_rogue_data) ==
    [i \in 1..Len(_rogue_data) |->
        [k \in DOMAIN _rogue_data[i] |-> _rogue_data[i][k]]]

\* lines 230-233, for one dict: del ea[k] for each k of ignore_keys it holds
RECURSIVE DeleteKeys(_, _)
DeleteKeys(ea, ks) ==
    IF ks = <<>> THEN ea
    ELSE DeleteKeys(Restrict(ea, DOMAIN ea \ {Head(ks)}), Tail(ks))

\* item[new] = item.pop(old, None), without the test
PopRenameDefault(item, old, new) ==
    [k \in (DOMAIN item \ {old}) \cup {new} |->
        IF k = new THEN (IF old \in DOMAIN item THEN item[old] ELSE "None")
        ELSE item[k]]

\* one if of lines 236-249: if old in item: item[new] = item.pop(old)
PopRename(item, old, new) ==
    IF old \in DOMAIN item
    THEN [k \in (DOMAIN item \ {old}) \cup {new} |->
             IF k = new THEN item[old] ELSE item[k]]
    ELSE item

\* lines 236-249 for one dict, from rename n on
RECURSIVE RenameFrom(_, _)
RenameFrom(n, item) ==
    IF n > Len(RenameMap) THEN item
    ELSE RenameFrom(n + 1, PopRename(item, RenameMap[n][1], RenameMap[n][2]))

\* clean_rogue_data: the loops run per key and per dict; every dict goes
\* through the deletions and then the renames
clean_rogue_data(_rogue_data, ignore) ==
    LET rs == RogueModelDict(_rogue_data)
    IN [i \in 1..Len(rs) |-> RenameFrom(1, DeleteKeys(rs[i], ignore))]

----------------------------------------------------------------------------
(* SpecProject: one call of clean_rogue_data *)

\* a value for every key a record may hold
SampleValue ==
    ("id" :> "AA:BB") @@ ("ssid" :> "EvilTwin") @@ ("classification" :> "rogue")
    @@ ("name" :> "Acme") @@ ("signal" :> "-70")
    @@ ("first_seen" :> "2024-06-01T00:00:00Z")
    @@ ("last_seen" :> "2024-06-01T00:00:00Z")
    @@ ("human_first_seen" :> "Sat, 01-Jun-2024 00:00:00 GMT")
    @@ ("human_last_seen" :> "Sat, 01-Jun-2024 00:00:00 GMT")
    @@ ("last_det_device_name" :> "AP-12")
    @@ ("acknowledged" :> "False") @@ ("classification_method" :> "rule")
    @@ ("encryption" :> "wpa2") @@ ("mac_vendor" :> "Acme Inc")
    @@ ("first_det_device_name" :> "AP-7") @@ ("containment_status" :> "none")
    @@ ("cust_id" :> "c-1") @@ ("first_det_device" :> "SN-7")
    @@ ("last_det_device" :> "SN-12") @@ ("overriden" :> "False")
    @@ ("group_name" :> "campus") @@ ("Type" :> "vendor-type")

\* the vendor fields no table shows
MiscKeys ==
    {"first_seen", "last_seen", "human_first_seen", "acknowledged",
     "classification_method", "encryption", "mac_vendor",
     "first_det_device_name", "containment_status", "cust_id",
     "first_det_device", "last_det_device", "overriden"}

\* the fields of a DetectionRecord, with the derived human_* fields
DataModelKeys == RenameKeys \cup MiscKeys

\* keys outside the data model: an unknown vendor field, and a field that
\* bears the name of a column
ExtraKeys == {"group_name", "Type"}

MiscChoices == {{}, MiscKeys} \cup {{k} : k \in MiscKeys}

ProjectRecords ==
    {Restrict(SampleValue, R \cup M \cup X) :
        R \in SUBSET RenameKeys, M \in MiscChoices, X \in SUBSET ExtraKeys}

ChannelIgnoreKeys == {slack_ignore_keys, smtp_ignore_keys, datatest_ignore_keys}

IgnoreLists ==
    ChannelIgnoreKeys
    \cup {<<>>, <<"ssid">>, <<"id">>, <<"group_name">>, <<"Type">>}

ProjectInputs ==
    {<<>>} \cup {<<r>> : r \in ProjectRecords}
    \cup {<<Restrict(SampleValue, DataModelKeys), r>> :
             r \in {Restrict(SampleValue, DataModelKeys \ {k}) : k \in RenameKeys}}

InitProject ==
    /\ cmd = "clean_rogue_data"
    /\ pc = "call"
    /\ arg \in ProjectInputs
    /\ ignore_keys \in IgnoreLists
    /\ all_rapids_types = arg
    /\ rogues = <<>>
    /\ check_ssids = <<>> /\ score = <<>> /\ matches = <<>>
    /\ rev = FALSE /\ save = FALSE /\ account = "default"
    /\ trace = <<>>
    /\ rogue_aps = <<>> /\ suspect_aps = <<>>
    /\ table = <<>>
    /\ exc = "" /\ upload_failed = FALSE /\ tmpfiles = 0

CallCleanRogueData ==
    /\ cmd = "clean_rogue_data"
    /\ pc = "call"
    /\ rogues' = clean_rogue_data(all_rapids_types, ignore_keys)
    /\ pc' = "return"
    /\ trace' = Append(trace, "project")
    /\ UNCHANGED <<cmd, rev, save, account, arg, rogue_aps, suspect_aps,
                   all_rapids_types, check_ssids, score, matches, ignore_keys,
                   table, exc, upload_failed, tmpfiles>>

NextProject == CallCleanRogueData

SpecProject == InitProject /\ [][NextProject]_vars

----------------------------------------------------------------------------
(* Claims about clean_rogue_data *)

ProjectReturned == cmd = "clean_rogue_data" /\ pc = "return"

Dropped == {ignore_keys[n] : n \in 1..Len(ignore_keys)}

\* (1) a rename-map key of the input that is not dropped is in the output
\* under its new name with its value
C4_RenamedKept ==
    ProjectReturned =>
        \A i \in 1..Len(arg) : \A k \in RenameKeys \cap DOMAIN arg[i] :
            k \notin Dropped =>
                /\ Target(k) \in DOMAIN rogues[i]
                /\ rogues[i][Target(k)] = arg[i][k]

\* (2) no key of the drop set is a key of the output
C4_DroppedAbsent ==
    ProjectReturned =>
        \A i \in 1..Len(arg) : DOMAIN rogues[i] \cap Dropped = {}

\* (3) an input key in neither the drop set nor the rename map is in the
\* output under its own name with its own value
C4_OthersPassThrough ==
    ProjectReturned =>
        \A i \in 1..Len(arg) : \A k \in DOMAIN arg[i] :
            (k \notin Dropped /\ k \notin RenameKeys) =>
                /\ k \in DOMAIN rogues[i]
                /\ rogues[i][k] = arg[i][k]

\* C4: for every record and every drop set the output of clean_rogue_data
\* holds each rename-map key of the input that is not dropped under its new
\* name with its value, holds no key of the drop set, and holds every other
\* input key under its own name with its own value, also when that key is the
\* name of a column (Type, BSSID).
C4_ProjectionCompleteness ==
    C4_RenamedKept /\ C4_DroppedAbsent /\ C4_OthersPassThrough

\* C6 as stated: for a channel's drop list and a record of the data model the
\* projected record's keys are exactly the seven columns.
C6_ExactlySevenKeys ==
    (ProjectReturned /\ ignore_keys \in ChannelIgnoreKeys) =>
        \A i \in 1..Len(arg) :
            ("id" \in DOMAIN arg[i] /\ DOMAIN arg[i] \subseteq DataModelKeys) =>
                DOMAIN rogues[i] = TargetNames

\* C6: for a channel's drop list (slack, smtp, datatest) and a record of the
\* data model, the projected record holds no key but the seven columns, and
\* holds a column exactly when the record holds the field it is renamed from,
\* with that field's value.
C6_ColumnsOfPresentFields ==
    (ProjectReturned /\ ignore_keys \in ChannelIgnoreKeys) =>
        \A i \in 1..Len(arg) :
            DOMAIN arg[i] \subseteq DataModelKeys =>
                /\ DOMAIN rogues[i] \subseteq TargetNames
                /\ \A k \in RenameKeys :
                      /\ (Target(k) \in DOMAIN rogues[i]) <=> (k \in DOMAIN arg[i])
                      /\ (k \in DOMAIN arg[i]) => rogues[i][Target(k)] = arg[i][k]

C6_Witness ==
    /\ ProjectReturned
    /\ ignore_keys = slack_ignore_keys
    /\ Len(arg) = 2
    /\ DOMAIN arg[1] = DataModelKeys
    /\ DOMAIN rogues[1] = TargetNames
    /\ DOMAIN arg[2] = DataModelKeys \ {"name"}
    /\ DOMAIN rogues[2] = TargetNames \ {"Manufacture"}

\* the record with the rename-map fields it lacks filled in
Completed(r) ==
    [k \in DOMAIN r \cup RenameKeys |-> IF k \in DOMAIN r THEN r[k] ELSE SampleValue[k]]

\* C8: projecting a record that lacks some of the rename-map fields gives a
\* record: no column is renamed from a missing field (a column of that name is
\* in the output only as a key the input itself held), and every other column
\* is there, with the same value, exactly as when the record is complete.
C8_MissingFieldOmitted ==
    ProjectReturned =>
        \A i \in 1..Len(arg) :
            LET missing == {Target(k) : k \in RenameKeys \ DOMAIN arg[i]}
                full == clean_rogue_data(<<Completed(arg[i])>>, ignore_keys)[1]
                out == rogues[i]
            IN /\ \A c \in missing :
                     c \in DOMAIN out =>
                        (c \in DOMAIN arg[i] /\ out[c] = arg[i][c])
               /\ \A c \in (DOMAIN out \cup DOMAIN full) \ missing :
                     /\ c \in DOMAIN out /\ c \in DOMAIN full
                     /\ out[c] = full[c]

C8_Witness ==
    /\ ProjectReturned
    /\ ignore_keys = smtp_ignore_keys
    /\ Len(arg) = 1
    /\ DOMAIN arg[1] = DataModelKeys \ {"id", "signal"}
    /\ DOMAIN rogues[1] = TargetNames \ {"BSSID", "Signal"}

----------------------------------------------------------------------------
(* get_all_rogues *)

\* pendulum.parse on the strings of the model: the instant, or a failure
pdl_parse(s) ==
    CASE s = "2024-06-01T00:00:00Z" -> [ok |-> TRUE, epoch |-> 1717200000]
      [] s = "2024-06-01T01:00:00Z" -> [ok |-> TRUE, epoch |-> 1717203600]
      [] OTHER -> [ok |-> FALSE, epoch |-> 0]

\* DateTime.to_cookie_string
to_cookie_string(dt) ==
    CASE dt.epoch = 1717200000 -> "Saturday, 01-Jun-2024 00:00:00 UTC"
      [] dt.epoch = 1717203600 -> "Saturday, 01-Jun-2024 01:00:00 UTC"
      [] OTHER -> "Thursday, 01-Jan-1970 00:00:00 UTC"

\* a parse that falls back to the epoch instead of raising
HumanSeenDefault(s) ==
    [ok |-> TRUE, val |-> to_cookie_string(pdl_parse(s))]

\* pdl.parse(...).to_cookie_string() of lines 220 and 222: the string, or the
\* parser's exception
HumanSeen(s) ==
    LET dt == pdl_parse(s)
    IN IF dt.ok THEN [ok |-> TRUE, val |-> to_cookie_string(dt)]
       ELSE [ok |-> FALSE, val |-> "ParserError"]

\* lines 219-222 for one record
NormalizeOne(ea) ==
    LET f == IF "first_seen" \in DOMAIN ea
             THEN HumanSeen(ea["first_seen"]) ELSE [ok |-> TRUE, val |-> ""]
        ea1 == IF "first_seen" \in DOMAIN ea /\ f.ok
               THEN ("human_first_seen" :> f.val) @@ ea ELSE ea
        l == IF "last_seen" \in DOMAIN ea1
             THEN HumanSeen(ea1["last_seen"]) ELSE [ok |-> TRUE, val |-> ""]
        ea2 == IF "last_seen" \in DOMAIN ea1 /\ l.ok
               THEN ("human_last_seen" :> l.val) @@ ea1 ELSE ea1
    IN [ok |-> f.ok /\ l.ok, rec |-> ea2]

\* the two lists the other way round
ConcatSuspectsFirst(rogue, suspect) == suspect \o rogue

\* lines 214-217: the two fetched lists as one
Concat(rogue, suspect) == rogue \o suspect

\* get_all_rogues after the two API calls: the list it returns, or the
\* exception of the first record whose timestamp does not parse
get_all_rogues(rogue, suspect) ==
    LET all_types == Concat(rogue, suspect)
        n == [i \in 1..Len(all_types) |-> NormalizeOne(all_types[i])]
    IN IF \A i \in 1..Len(all_types) : n[i].ok
       THEN [ok |-> TRUE, ret |-> [i \in 1..Len(all_types) |-> n[i].rec]]
       ELSE [ok |-> FALSE, ret |-> <<>>]

----------------------------------------------------------------------------
(* The commands *)

Commands == {"show", "sendgrid", "slack", "smtp", "datatest"}

FetchCommands == {"show", "sendgrid", "slack", "smtp"}

ProjectCommands == {"slack", "smtp", "datatest"}

Accounts == {"default", "lab"}

\* .env.yaml, lines 25-26: an account with a watchlist and one with none
central_info(acct) ==
    IF acct = "default" THEN [check_ssids |-> <<"eviltwin", "evil">>]
    ELSE [check_ssids |-> <<>>]

\* fuzz.partial_ratio on the strings of the model
partial_ratio ==
    (<<"", "eviltwin">> :> 0) @@ (<<"", "evil">> :> 0)
    @@ (<<"eviltwin", "eviltwin">> :> 100) @@ (<<"eviltwin", "evil">> :> 100)
    @@ (<<"unrelated", "eviltwin">> :> 43) @@ (<<"unrelated", "evil">> :> 50)

\* the fields the API sends
RawKeys == DataModelKeys \ {"human_first_seen", "human_last_seen"}

RawRecord == Restrict(SampleValue, RawKeys)

With(r, k, v) == (k :> v) @@ r

\* the records a fetch may return
FetchRecords ==
    { RawRecord,
      With(With(With(RawRecord, "ssid", "Unrelated"), "id", "CC:DD"),
           "last_seen", "2024-06-01T01:00:00Z"),
      Restrict(RawRecord, RawKeys \ {"ssid"}),
      With(RawRecord, "first_seen", "yesterday"),
      With(RawRecord, "last_seen", "yesterday"),
      Restrict(RawRecord, RawKeys \ {"first_seen", "last_seen"}) }

FetchedPairs ==
    {p \in SeqsUpTo(FetchRecords, MaxFetch) \X SeqsUpTo(FetchRecords, MaxFetch) :
        Len(p[1]) + Len(p[2]) <= MaxFetch}

\* rogue_test_data.json, lines 366-369: a list get_all_rogues once returned
SavedLists ==
    {get_all_rogues(p[1], p[2]).ret :
        p \in {q \in FetchedPairs : get_all_rogues(q[1], q[2]).ok}}

\* the dicts a list of references points at
Deref(refs, recs) == [j \in 1..Len(refs) |-> recs[refs[j]]]

\* the keys the console tables read with ea[...], lines 149-158 and 194-203
TableKeys ==
    {"last_seen", "classification", "id", "name", "signal", "last_det_device_name"}

\* the rows of a console table, lines 147-159 and 192-204
rich_table(recs) ==
    [tablefmt |-> "rich",
     headers  |-> {"Type", "Rogue SSID", "BSSID", "Manufacture", "Signal",
                   "First Seen", "Seen by"},
     rows     |-> [i \in 1..Len(recs) |->
                     <<recs[i]["classification"], SsidOrEmpty(recs[i]),
                       recs[i]["id"], recs[i]["name"], recs[i]["signal"],
                       to_cookie_string(pdl_parse(recs[i]["last_seen"])),
                       recs[i]["last_det_device_name"]>>]]

\* tabulate(rogues, headers="keys", tablefmt=...)
tabulate(rows, fmt) ==
    [tablefmt |-> fmt,
     headers  |-> UNION {DOMAIN rows[i] : i \in 1..Len(rows)},
     rows     |-> rows]

IgnoreKeysOf(c) ==
    CASE c = "slack" -> slack_ignore_keys
      [] c = "smtp" -> smtp_ignore_keys
      [] OTHER -> datatest_ignore_keys

Init ==
    /\ cmd \in Commands
    /\ rev \in (IF cmd = "show" THEN BOOLEAN ELSE {TRUE})
    /\ save \in (IF cmd = "show" THEN BOOLEAN ELSE {FALSE})
    /\ account \in Accounts
    /\ pc = "start"
    /\ trace = <<>>
    /\ arg = <<>>
    /\ rogue_aps = <<>> /\ suspect_aps = <<>>
    /\ all_rapids_types = <<>>
    /\ check_ssids = central_info(account).check_ssids
    /\ score = partial_ratio
    /\ matches = <<>>
    /\ ignore_keys = <<>> /\ rogues = <<>> /\ table = <<>>
    /\ exc = "" /\ upload_failed = FALSE /\ tmpfiles = 0

\* get_all_rogues, lines 211-217: the two API calls
Fetch ==
    /\ cmd \in FetchCommands
    /\ pc = "start"
    /\ \E p \in FetchedPairs :
          /\ rogue_aps' = p[1]
          /\ suspect_aps' = p[2]
    /\ pc' = "fetched"
    /\ trace' = Append(trace, "fetch")
    /\ UNCHANGED <<cmd, rev, save, account, arg, all_rapids_types, check_ssids,
                   score, matches, ignore_keys, rogues, table, exc,
                   upload_failed, tmpfiles>>

\* get_all_rogues, lines 214-223: the concatenation and the loop
Normalize ==
    /\ cmd \in FetchCommands
    /\ pc = "fetched"
    /\ LET r == get_all_rogues(rogue_aps, suspect_aps)
       IN IF r.ok
          THEN /\ all_rapids_types' = r.ret
               /\ pc' = "normalized"
               /\ exc' = exc
          ELSE /\ all_rapids_types' = all_rapids_types
               /\ pc' = "error"
               /\ exc' = "ParserError"
    /\ trace' = Append(trace, "normalize")
    /\ UNCHANGED <<cmd, rev, save, account, arg, rogue_aps, suspect_aps,
                   check_ssids, score, matches, ignore_keys, rogues, table,
                   upload_failed, tmpfiles>>

\* datatest, lines 368-369
LoadTestData ==
    /\ cmd = "datatest"
    /\ pc = "start"
    /\ all_rapids_types' \in SavedLists
    /\ pc' = "normalized"
    /\ trace' = Append(trace, "load")
    /\ UNCHANGED <<cmd, rev, save, account, arg, rogue_aps, suspect_aps,
                   check_ssids, score, matches, ignore_keys, rogues, table, exc,
                   upload_failed, tmpfiles>>

\* where show goes after its two tables
AfterShow(second) ==
    IF ~second THEN "show2" ELSE IF save THEN "save" ELSE "done"

\* show_rogue_ssids(all_rapids_types, check_ssids, mail=False), called by show
ShowRogueSsids ==
    /\ cmd = "show"
    /\ \/ pc = "normalized" /\ rev
       \/ pc = "show2" /\ ~rev
    /\ LET r == find_ssids(all_rapids_types, check_ssids, score)
           found == Deref(r.ret, r.fdata)
       IN /\ matches' = r.ret
          /\ all_rapids_types' = r.fdata
          /\ IF \A j \in 1..Len(found) : TableKeys \subseteq DOMAIN found[j]
             THEN /\ table' = rich_table(found)
                  /\ pc' = AfterShow(pc = "show2")
                  /\ exc' = exc
                  /\ trace' = trace \o <<"classify", "render", "deliver">>
             ELSE /\ table' = table
                  /\ pc' = "error"
                  /\ exc' = "KeyError"
                  /\ trace' = trace \o <<"classify", "render">>
    /\ UNCHANGED <<cmd, rev, save, account, arg, rogue_aps, suspect_aps,
                   check_ssids, score, ignore_keys, rogues, upload_failed,
                   tmpfiles>>

\* show_all_rogues(all_rapids_types, mail=False), called by show
ShowAllRogues ==
    /\ cmd = "show"
    /\ \/ pc = "normalized" /\ ~rev
       \/ pc = "show2" /\ rev
    /\ IF \A i \in 1..Len(all_rapids_types) :
             TableKeys \subseteq DOMAIN all_rapids_types[i]
       THEN /\ table' = rich_table(all_rapids_types)
            /\ pc' = AfterShow(pc = "show2")
            /\ exc' = exc
            /\ trace' = trace \o <<"render", "deliver">>
       ELSE /\ table' = table
            /\ pc' = "error"
            /\ exc' = "KeyError"
            /\ trace' = Append(trace, "render")
    /\ UNCHANGED <<cmd, rev, save, account, arg, rogue_aps, suspect_aps,
                   all_rapids_types, check_ssids, score, matches, ignore_keys,
                   rogues, upload_failed, tmpfiles>>

\* show, lines 412-417: the two lists again, and save_to_file
SaveReport ==
    /\ cmd = "show"
    /\ pc = "save"
    /\ LET r == find_ssids(all_rapids_types, check_ssids, score)
       IN /\ matches' = r.ret
          /\ all_rapids_types' = r.fdata
    /\ pc' = "done"
    /\ trace' = trace \o <<"classify", "save">>
    /\ UNCHANGED <<cmd, rev, save, account, arg, rogue_aps, suspect_aps,
                   check_ssids, score, ignore_keys, rogues, table, exc,
                   upload_failed, tmpfiles>>

\* sendgrid, lines 263-264: show_all_rogues and show_rogue_ssids with mail=True
SendgridCollect ==
    /\ cmd = "sendgrid"
    /\ pc = "normalized"
    /\ LET r == find_ssids(all_rapids_types, check_ssids, score)
       IN /\ matches' = r.ret
          /\ all_rapids_types' = r.fdata
    /\ pc' = "classified"
    /\ trace' = Append(trace, "classify")
    /\ UNCHANGED <<cmd, rev, save, account, arg, rogue_aps, suspect_aps,
                   check_ssids, score, ignore_keys, rogues, table, exc,
                   upload_failed, tmpfiles>>

\* sendgrid, lines 265-274: send_template_email, which may raise
SendgridSend ==
    /\ cmd = "sendgrid"
    /\ pc = "classified"
    /\ \E sent \in BOOLEAN :
          /\ pc' = IF sent THEN "done" ELSE "error"
          /\ exc' = IF sent THEN exc ELSE "MailError"
    /\ trace' = trace \o <<"render", "deliver">>
    /\ UNCHANGED <<cmd, rev, save, account, arg, rogue_aps, suspect_aps,
                   all_rapids_types, check_ssids, score, matches, ignore_keys,
                   rogues, table, upload_failed, tmpfiles>>

\* slack line 306, smtp line 353, datatest line 387
Project ==
    /\ cmd \in ProjectCommands
    /\ pc = "normalized"
    /\ ignore_keys' = IgnoreKeysOf(cmd)
    /\ rogues' = clean_rogue_data(all_rapids_types, IgnoreKeysOf(cmd))
    /\ pc' = "projected"
    /\ trace' = Append(trace, "project")
    /\ UNCHANGED <<cmd, rev, save, account, arg, rogue_aps, suspect_aps,
                   all_rapids_types, check_ssids, score, matches, table, exc,
                   upload_failed, tmpfiles>>

\* slack line 307, smtp line 354, datatest line 389
Render ==
    /\ cmd \in ProjectCommands
    /\ pc = "projected"
    /\ table' = tabulate(rogues, IF cmd = "smtp" THEN "html" ELSE "simple")
    /\ pc' = "rendered"
    /\ trace' = Append(trace, "render")
    /\ UNCHANGED <<cmd, rev, save, account, arg, rogue_aps, suspect_aps,
                   all_rapids_types, check_ssids, score, matches, ignore_keys,
                   rogues, exc, upload_failed, tmpfiles>>

\* slack, lines 310-323, with upload_table (slack_table.py lines 56-76):
\* the temporary file is written, files_upload_v2 returns or raises, the file
\* is unlinked only after a return; upload_table turns a SlackApiError into a
\* new SlackApiError, which slack catches and prints
SlackUpload ==
    /\ cmd = "slack"
    /\ pc = "rendered"
    /\ \E outcome \in {"ok", "SlackApiError", "OtherError"} :
          /\ upload_failed' = (outcome # "ok")
          /\ tmpfiles' = IF outcome = "ok" THEN tmpfiles ELSE tmpfiles + 1
          /\ pc' = IF outcome = "OtherError" THEN "error" ELSE "done"
          /\ exc' = IF outcome = "OtherError" THEN "OtherError" ELSE exc
    /\ trace' = Append(trace, "deliver")
    /\ UNCHANGED <<cmd, rev, save, account, arg, rogue_aps, suspect_aps,
                   all_rapids_types, check_ssids, score, matches, ignore_keys,
                   rogues, table>>

\* smtp line 355: send_legacy_email (smtplegacy.py lines 13-47), which lets
\* the exceptions of smtplib through
SmtpSend ==
    /\ cmd = "smtp"
    /\ pc = "rendered"
    /\ \E sent \in BOOLEAN :
          /\ pc' = IF sent THEN "done" ELSE "error"
          /\ exc' = IF sent THEN exc ELSE "SMTPException"
    /\ trace' = Append(trace, "deliver")
    /\ UNCHANGED <<cmd, rev, save, account, arg, rogue_aps, suspect_aps,
                   all_rapids_types, check_ssids, score, matches, ignore_keys,
                   rogues, table, upload_failed, tmpfiles>>

\* datatest line 390
DatatestPrint ==
    /\ cmd = "datatest"
    /\ pc = "rendered"
    /\ pc' = "done"
    /\ trace' = Append(trace, "deliver")
    /\ UNCHANGED <<cmd, rev, save, account, arg, rogue_aps, suspect_aps,
                   all_rapids_types, check_ssids, score, matches, ignore_keys,
                   rogues, table, exc, upload_failed, tmpfiles>>

Next ==
    \/ Fetch
    \/ Normalize
    \/ LoadTestData
    \/ ShowRogueSsids
    \/ ShowAllRogues
    \/ SaveReport
    \/ SendgridCollect
    \/ SendgridSend
    \/ Project
    \/ Render
    \/ SlackUpload
    \/ SmtpSend
    \/ DatatestPrint

Spec == Init /\ [][Next]_vars

----------------------------------------------------------------------------
(* Claims about the commands *)

\* get_all_rogues has returned its list in this run
NormalizeReturned ==
    /\ cmd \in FetchCommands
    /\ pc \notin {"start", "fetched"}
    /\ exc # "ParserError"

\* C3: once get_all_rogues has returned, in show, sendgrid, slack and smtp,
\* every record of its list has an ssid key.
C3_SsidAfterNormalize ==
    NormalizeReturned =>
        \A i \in 1..Len(all_rapids_types) : "ssid" \in DOMAIN all_rapids_types[i]

\* the records the classifier returns for the account's watchlist
Classified(recs) ==
    LET r == find_ssids(recs, central_info(account).check_ssids, partial_ratio)
    IN Deref(r.ret, r.fdata)

\* C5: in slack and smtp the stages run in the order fetch, normalize,
\* classify, project, render, deliver, and what is projected is the output of
\* the classifier for the account's watchlist.
C5_ProjectsClassifierOutput ==
    (cmd \in {"slack", "smtp"} /\ pc \in {"projected", "rendered", "done"}) =>
        /\ Len(trace) >= 4
        /\ SubSeq(trace, 1, 4) = <<"fetch", "normalize", "classify", "project">>
        /\ rogues = clean_rogue_data(Classified(all_rapids_types), ignore_keys)

Malformed(r) ==
    \/ "first_seen" \in DOMAIN r /\ ~pdl_parse(r["first_seen"]).ok
    \/ "last_seen" \in DOMAIN r /\ ~pdl_parse(r["last_seen"]).ok

AnyMalformed ==
    \E i \in 1..Len(rogue_aps \o suspect_aps) :
        Malformed((rogue_aps \o suspect_aps)[i])

\* C7: when a fetched record has a first_seen or last_seen that does not
\* parse, the run ends with the parser's exception in normalization: no list
\* is returned, and nothing is classified, projected, rendered or delivered.
C7_MalformedTimestampFatal ==
    (cmd \in FetchCommands /\ pc # "fetched" /\ AnyMalformed) =>
        /\ pc = "error"
        /\ exc = "ParserError"
        /\ trace = <<"fetch", "normalize">>
        /\ all_rapids_types = <<>>
        /\ matches = <<>> /\ rogues = <<>> /\ table = <<>>

C7_Witness ==
    /\ cmd = "smtp"
    /\ pc = "error"
    /\ exc = "ParserError"
    /\ Len(rogue_aps) = 1 /\ Len(suspect_aps) = 1
    /\ ~Malformed(rogue_aps[1])
    /\ "first_seen" \in DOMAIN suspect_aps[1]
    /\ ~pdl_parse(suspect_aps[1]["first_seen"]).ok

\* C9: when the upload of the slack command fails, the slack command ends
\* with the exception, not normally.
C9_UploadFailurePropagates ==
    (cmd = "slack" /\ upload_failed) => (pc = "error" /\ exc # "")

\* record n holds every field of record r, with r's value
Extends(n, r) == DOMAIN r \subseteq DOMAIN n /\ \A k \in DOMAIN r : n[k] = r[k]

\* C10: the list get_all_rogues returns is the rogue list followed by the
\* suspected-rogue list, record for record and in order: as long as the two
\* together, with two records of the same fields both kept.
C10_ConcatenationKeepsAll ==
    NormalizeReturned =>
        /\ Len(all_rapids_types) = Len(rogue_aps) + Len(suspect_aps)
        /\ \A i \in 1..Len(rogue_aps) : Extends(all_rapids_types[i], rogue_aps[i])
        /\ \A i \in 1..Len(suspect_aps) :
              Extends(all_rapids_types[Len(rogue_aps) + i], suspect_aps[i])

C10_Witness ==
    /\ NormalizeReturned
    /\ pc = "normalized"
    /\ Len(rogue_aps) = 1 /\ Len(suspect_aps) = 1
    /\ rogue_aps[1] = suspect_aps[1]
    /\ Len(all_rapids_types) = 2
    /\ all_rapids_types[1] = all_rapids_types[2]

\* upload_table has finished in this run, by a return or by an exception
UploadFinished ==
    /\ cmd = "slack"
    /\ pc \in {"done", "error"}
    /\ Len(trace) > 0
    /\ trace[Len(trace)] = "deliver"

\* C11: whenever upload_table has finished, with the response or with an
\* exception, the temporary file it wrote is gone: no upload leaves a
\* temporary file on disk.
C11_NoTempFileLeft ==
    UploadFinished => tmpfiles = 0

====
